---- MODULE Spec2Model ----
(***************************************************************************)
(* Model of slot's session module (src/src/session.rs): the persistence    *)
(* adapter (get / store over the local config directory) and the session   *)
(* creation handshake (create, open_session_creation_page, callback_server *)
(* and the tokio mpsc channel of capacity 1 between them).                 *)
(***************************************************************************)
EXTENDS Naturals, Integers, Sequences, FiniteSets, TLC

VARIABLES
    cred,        \* what Credentials::load() yields
    fs,          \* the file system below the OS local config directory
    lastOp,      \* the last get / store call and its outcome
    latest,      \* per (account, chain): the session of the latest store call
    pc,          \* position of each create call
    user,        \* username resolved by each create call
    port,        \* port of each handshake's bound listener (0: none)
    server,      \* state of each handshake's LocalServer
    chanOf,      \* the channel each handshake built (0: none yet)
    chan,        \* the channels: buffer and whether the Receiver is alive
    deliveries,  \* POST /callback requests each endpoint has accepted
    opened,      \* the browser::open calls of each create call, in order
    binds,       \* how many times each create call built a callback server
    staged,      \* what recv() yielded to a create call about to return
    result,      \* what each create call returned
    returns,     \* how many times each create call returned
    built        \* the approval URL being built from its inputs

vars == <<cred, fs, lastOp, latest, pc, user, port, server, chanOf, chan,
          deliveries, opened, binds, staged, result, returns, built>>

persistVars == <<cred, fs, lastOp, latest>>
handshakeVars == <<pc, user, port, server, chanOf, chan, deliveries, opened,
                   binds, staged, result, returns>>
encodeVars == <<built>>

(***************************************************************************)
(* Bounds of the model.                                                    *)
(***************************************************************************)
MaxDeliveries == 3
MaxPolicies == 2

\* Two create calls of one process, and the ephemeral ports the OS hands out.
Handshakes == {1, 2}
Ports == {1, 2}

(***************************************************************************)
(* Options and results.  An option is a sequence of length 0 or 1.         *)
(***************************************************************************)
None == <<>>
Some(x) == <<x>>

Ok(v) == [tag |-> "Ok", err |-> "", val |-> <<v>>]
OkUnit == [tag |-> "Ok", err |-> "", val |-> <<>>]
Err(e) == [tag |-> "Err", err |-> e, val |-> <<>>]
Panic(msg) == [tag |-> "Panic", err |-> msg, val |-> <<>>]
NotReturned == [tag |-> "None", err |-> "", val |-> <<>>]

(***************************************************************************)
(* FieldElement text forms.  Text is a sequence of one-character strings.  *)
(***************************************************************************)
HexDigits == <<"0", "1", "2", "3", "4", "5", "6", "7", "8", "9",
               "a", "b", "c", "d", "e", "f">>

DigitOf(n) == HexDigits[n + 1]

IsDigit(c, base) == \E i \in 1..base : HexDigits[i] = c

DigitVal(c) == (CHOOSE i \in 1..16 : HexDigits[i] = c) - 1

RECURSIVE ToBase(_, _)
ToBase(n, base) ==
    IF n < base THEN <<DigitOf(n)>>
    ELSE ToBase(n \div base, base) \o <<DigitOf(n % base)>>

RECURSIVE FromBase(_, _)
FromBase(str, base) ==
    IF str = <<>> THEN 0
    ELSE FromBase(SubSeq(str, 1, Len(str) - 1), base) * base
         + DigitVal(str[Len(str)])

\* Display for FieldElement, used by its Serialize: decimal digits.
FeltToString(n) == ToBase(n, 10)

\* `{chain_id:#x}`: lowercase hex with the 0x prefix.
FeltLowerHex(n) == <<"0", "x">> \o ToBase(n, 16)

\* FieldElement::from_str, used by its Deserialize: 0x-prefixed hex, or
\* decimal; anything else is an error (None).
FeltFromStr(str) ==
    IF Len(str) >= 2 /\ str[1] = "0" /\ str[2] = "x"
    THEN LET h == SubSeq(str, 3, Len(str))
         IN IF h # <<>> /\ \A i \in 1..Len(h) : IsDigit(h[i], 16)
            THEN Some(FromBase(h, 16)) ELSE None
    ELSE IF str # <<>> /\ \A i \in 1..Len(str) : IsDigit(str[i], 10)
         THEN Some(FromBase(str, 10)) ELSE None

(***************************************************************************)
(* Session, Policy, SessionCredentials and their JSON forms.  A JSON       *)
(* object is a record whose field names are the keys of the object.        *)
(***************************************************************************)
Policy(target, method) == [target |-> target, method |-> method]

SessionCredentials(private_key, authorization) ==
    [private_key |-> private_key, authorization |-> authorization]

Session(expires_at, policies, credentials) ==
    [expires_at |-> expires_at, policies |-> policies,
     credentials |-> credentials]

\* #[derive(Serialize)] on Policy
PolicyToJson(p) == [target |-> FeltToString(p.target), method |-> p.method]

\* #[derive(Serialize)] #[serde(rename_all = "camelCase")] on Session and
\* SessionCredentials
SessionToJson(s) ==
    [expiresAt |-> s.expires_at,
     policies |-> [i \in 1..Len(s.policies) |-> PolicyToJson(s.policies[i])],
     credentials |-> [privateKey |-> s.credentials.private_key,
                      authorization |-> s.credentials.authorization]]

\* #[derive(Deserialize)] on Policy: both fields required, the target must
\* parse as a FieldElement.
PolicyDecodes(doc) ==
    /\ {"target", "method"} \subseteq DOMAIN doc
    /\ FeltFromStr(doc.target) # None

PolicyFromJson(doc) == Policy(FeltFromStr(doc.target)[1], doc.method)

\* #[derive(Deserialize)] on Session: all fields required (camelCase keys),
\* unknown keys ignored.
SessionDecodes(doc) ==
    /\ {"expiresAt", "policies", "credentials"} \subseteq DOMAIN doc
    /\ {"privateKey", "authorization"} \subseteq DOMAIN doc.credentials
    /\ \A i \in 1..Len(doc.policies) : PolicyDecodes(doc.policies[i])

SessionFromJson(doc) ==
    IF SessionDecodes(doc)
    THEN Some(Session(doc.expiresAt,
                      [i \in 1..Len(doc.policies) |->
                          PolicyFromJson(doc.policies[i])],
                      SessionCredentials(doc.credentials.privateKey,
                                         doc.credentials.authorization)))
    ELSE None

(***************************************************************************)
(* The values the model draws its inputs from.                             *)
(***************************************************************************)
SessionA ==
    Session("2030-01-01", <<Policy(26, "transfer")>>,
            SessionCredentials("0xkeyA", <<"0xauth">>))

SessionB ==
    Session("2031-06-30", <<>>, SessionCredentials("0xkeyB", <<>>))

Sessions == {SessionA, SessionB}

\* The body the approval page posts for SessionA writes the target in hex.
BodyA ==
    [expiresAt |-> "2030-01-01",
     policies |-> <<[target |-> <<"0", "x", "1", "a">>,
                     method |-> "transfer"]>>,
     credentials |-> [privateKey |-> "0xkeyA", authorization |-> <<"0xauth">>]]

BodyB == SessionToJson(SessionB)

\* Bodies that do not decode as a Session: a missing key, a bad target.
BodyNoCredentials == [expiresAt |-> "2030-01-01", policies |-> <<>>]

BodyBadTarget ==
    [expiresAt |-> "2030-01-01",
     policies |-> <<[target |-> <<"z">>, method |-> "transfer"]>>,
     credentials |-> [privateKey |-> "0xkeyA", authorization |-> <<>>]]

ValidBodies == {BodyA, BodyB}
MalformedBodies == {BodyNoCredentials, BodyBadTarget}
Bodies == ValidBodies \cup MalformedBodies

Accounts == {"alice", "bob"}
ChainIds == {1, 26}

(***************************************************************************)
(* Credential Store: Credentials::load() fails, or yields credentials      *)
(* whose account is an Option.                                             *)
(***************************************************************************)
LoadFailed == [loaded |-> FALSE, account |-> None]
LoggedOut == [loaded |-> TRUE, account |-> None]
LoggedIn(a) == [loaded |-> TRUE, account |-> Some(a)]

CredentialStates == {LoadFailed, LoggedOut} \cup {LoggedIn(a) : a \in Accounts}

(***************************************************************************)
(* The file system below dirs::config_local_dir().  A path is the sequence *)
(* of its components below that directory, which itself exists.            *)
(***************************************************************************)
SLOT_DIR == "slot"
SESSION_FILE_BASE_NAME == "session.json"

\* Variant: one session file per account, whatever the chain.
get_file_path_per_account(username, chain_id) ==
    <<SLOT_DIR, username, <<"0", "x", "1", "-", SESSION_FILE_BASE_NAME>>>>

get_file_path(username, chain_id) ==
    LET file_name == FeltLowerHex(chain_id) \o <<"-", SESSION_FILE_BASE_NAME>>
    IN <<SLOT_DIR, username, file_name>>

Parent(path) == SubSeq(path, 1, Len(path) - 1)

Prefixes(path) == {SubSeq(path, 1, k) : k \in 1..Len(path)}

FilePaths == {get_file_path(a, c) : a \in Accounts, c \in ChainIds}

Paths == UNION {Prefixes(p) : p \in FilePaths}

Absent == [kind |-> "absent", data |-> None]
Dir == [kind |-> "dir", data |-> None]
File(contents) == [kind |-> "file", data |-> Some(contents)]

\* Path::exists
Exists(f, path) == path = <<>> \/ f[path].kind # "absent"

IsDir(f, path) == path = <<>> \/ f[path].kind = "dir"

\* fs::create_dir_all: every missing component of `path`, the last one
\* included, becomes a directory; fails when a component is a file.
create_dir_all(f, path) ==
    IF \E q \in Prefixes(path) : f[q].kind = "file"
    THEN [ok |-> FALSE, fs |-> f]
    ELSE [ok |-> TRUE,
          fs |-> [q \in DOMAIN f |->
                     IF q \in Prefixes(path) THEN Dir ELSE f[q]]]

\* fs::write: creates or truncates the file; fails when the parent is not a
\* directory or the path is one.
write(f, path, contents) ==
    IF IsDir(f, Parent(path)) /\ f[path].kind # "dir"
    THEN [ok |-> TRUE, fs |-> [f EXCEPT ![path] = File(contents)]]
    ELSE [ok |-> FALSE, fs |-> f]

\* fs::read_to_string
read_to_string(f, path) ==
    IF f[path].kind = "file" THEN f[path].data ELSE None

\* serde_json::to_string_pretty(&session): layout aside, the JSON document.
to_string_pretty(session) == SessionToJson(session)

\* serde_json::from_str::<Session>
from_str(contents) == SessionFromJson(contents)

(***************************************************************************)
(* get and store as functions of the credentials and the file system.      *)
(***************************************************************************)
GetOutcome(c, f, chain_id) ==
    IF ~c.loaded THEN Err("CredentialsLoadFailed")
    ELSE IF c.account = None THEN Panic("id must exist")
    ELSE LET path == get_file_path(c.account[1], chain_id)
             contents == read_to_string(f, path)
         IN IF contents = None THEN Err("SessionNotFound")
            ELSE IF from_str(contents[1]) = None
                 THEN Err("DeserializationError")
            ELSE Ok(from_str(contents[1])[1])

\* The parent-directory block of store (lines 59-65).
CreateParents(f, path) ==
    IF ~Exists(f, Parent(path)) THEN create_dir_all(f, path)
    ELSE [ok |-> TRUE, fs |-> f]

StoreOutcome(c, f, chain_id, session) ==
    IF ~c.loaded THEN [out |-> Err("CredentialsLoadFailed"), fs |-> f]
    ELSE IF c.account = None THEN [out |-> Panic("id must exist"), fs |-> f]
    ELSE LET path == get_file_path(c.account[1], chain_id)
             made == CreateParents(f, path)
             written == write(made.fs, path, to_string_pretty(session))
         IN IF ~made.ok
            THEN [out |-> Err("PersistenceWriteFailed"), fs |-> made.fs]
            ELSE IF ~written.ok
                 THEN [out |-> Err("PersistenceWriteFailed"), fs |-> written.fs]
            ELSE [out |-> OkUnit, fs |-> written.fs]

NoOp == [op |-> "none", cred |-> LoadFailed, chain |-> 0, arg |-> None,
         before |-> None, out |-> NotReturned]

Keys == Accounts \X ChainIds

\* pub fn get(chain_id)
Get(chain_id) ==
    /\ lastOp' = [op |-> "get", cred |-> cred, chain |-> chain_id,
                  arg |-> None, before |-> Some(fs),
                  out |-> GetOutcome(cred, fs, chain_id)]
    /\ UNCHANGED <<cred, fs, latest>>
    /\ UNCHANGED <<handshakeVars, encodeVars>>

\* pub fn store(chain_id, session)
Store(chain_id, session) ==
    LET r == StoreOutcome(cred, fs, chain_id, session)
    IN /\ fs' = r.fs
       /\ lastOp' = [op |-> "store", cred |-> cred, chain |-> chain_id,
                     arg |-> Some(session), before |-> Some(fs), out |-> r.out]
       /\ latest' = IF cred.account = None THEN latest
                    ELSE [latest EXCEPT ![<<cred.account[1], chain_id>>] =
                             Some(session)]
       /\ UNCHANGED cred
       /\ UNCHANGED <<handshakeVars, encodeVars>>

\* The Credential Store changes between calls (login, logout, a file that
\* stops being readable).
SetCredentials(c) ==
    /\ c # cred
    /\ cred' = c
    /\ UNCHANGED <<fs, lastOp, latest>>
    /\ UNCHANGED <<handshakeVars, encodeVars>>

(***************************************************************************)
(* File systems a call can start from.                                     *)
(***************************************************************************)
EmptyFs == [p \in Paths |-> Absent]

\* Only the product directory exists: no account has stored anything yet.
FreshFs == [EmptyFs EXCEPT ![<<SLOT_DIR>>] = Dir]

\* alice's directory exists and holds a session for chain 1 and an
\* unreadable record for chain 26.
UsedFs ==
    [FreshFs EXCEPT ![<<SLOT_DIR, "alice">>] = Dir,
                    ![get_file_path("alice", 1)] =
                        File(SessionToJson(SessionB)),
                    ![get_file_path("alice", 26)] = File(BodyNoCredentials)]

InitialFileSystems == {EmptyFs, FreshFs, UsedFs}

(***************************************************************************)
(* Text of the approval URL.  Text is a sequence of one-character strings. *)
(***************************************************************************)
T_username ==
    <<"u", "s", "e", "r", "n", "a", "m", "e">>

T_rpc_url ==
    <<"r", "p", "c", "_", "u", "r", "l">>

T_policies ==
    <<"p", "o", "l", "i", "c", "i", "e", "s">>

T_callback_uri ==
    <<"c", "a", "l", "l", "b", "a", "c", "k", "_", "u", "r", "i">>

T_target ==
    <<"t", "a", "r", "g", "e", "t">>

T_method ==
    <<"m", "e", "t", "h", "o", "d">>

\* "https://x.cartridge.gg/slot/session" (line 96)
T_session_page ==
    <<"h", "t", "t", "p", "s", ":", "/", "/", "x", ".", "c", "a", "r", "t",
      "r", "i", "d", "g", "e", ".", "g", "g", "/", "s", "l", "o", "t", "/",
      "s", "e", "s", "s", "i", "o", "n">>

T_localhost ==
    <<"h", "t", "t", "p", ":", "/", "/", "l", "o", "c", "a", "l", "h", "o",
      "s", "t", ":">>

T_callback_path ==
    <<"/", "c", "a", "l", "l", "b", "a", "c", "k">>

\* The characters outside [A-Za-z0-9-_.~] that the model's texts use, each
\* with the two hex digits of its byte.
ReservedCodes ==
    {<<" ", "2", "0">>,
     <<"\"", "2", "2">>,
     <<"#", "2", "3">>,
     <<"%", "2", "5">>,
     <<"&", "2", "6">>,
     <<"+", "2", "B">>,
     <<",", "2", "C">>,
     <<"/", "2", "F">>,
     <<":", "3", "A">>,
     <<"=", "3", "D">>,
     <<"?", "3", "F">>,
     <<"[", "5", "B">>,
     <<"\\", "5", "C">>,
     <<"]", "5", "D">>,
     <<"{", "7", "B">>,
     <<"}", "7", "D">>}

IsReserved(c) == \E t \in ReservedCodes : t[1] = c

CodeOf(c) == CHOOSE t \in ReservedCodes : t[1] = c

\* The concatenation of a sequence of texts, by halves.
RECURSIVE Flatten(_)
Flatten(seqs) ==
    IF Len(seqs) = 0 THEN <<>>
    ELSE IF Len(seqs) = 1 THEN seqs[1]
    ELSE Flatten(SubSeq(seqs, 1, Len(seqs) \div 2))
         \o Flatten(SubSeq(seqs, Len(seqs) \div 2 + 1, Len(seqs)))

RECURSIVE Join(_, _)
Join(seqs, sep) ==
    IF seqs = <<>> THEN <<>>
    ELSE IF Len(seqs) = 1 THEN seqs[1]
    ELSE seqs[1] \o sep \o Join(Tail(seqs), sep)

\* An encoder that leaves the JSON text of a policy as it is.
encode_nothing(text) == text

\* urlencoding::encode: every byte but the unreserved ones becomes %XX.
urlencoding_encode(text) ==
    Flatten([i \in 1..Len(text) |->
                IF IsReserved(text[i])
                THEN <<"%", CodeOf(text[i])[2], CodeOf(text[i])[3]>>
                ELSE <<text[i]>>])

\* serde_json's string form: quoted, with " and \ escaped.
JsonString(text) ==
    <<"\"">>
    \o Flatten([i \in 1..Len(text) |->
                   IF text[i] \in {"\"", "\\"} THEN <<"\\", text[i]>>
                   ELSE <<text[i]>>])
    \o <<"\"">>

\* serde_json::to_string(&policy): {"target":"<felt>","method":"<method>"}
policy_to_string(p) ==
    <<"{">> \o JsonString(T_target) \o <<":">>
    \o JsonString(FeltToString(p.target))
    \o <<",">> \o JsonString(T_method) \o <<":">> \o JsonString(p.method)
    \o <<"}">>

\* The policies=[...] part of prepare_query_params (lines 121-126, 129).
PoliciesParam(policies) ==
    T_policies \o <<"=", "[">>
    \o Join([i \in 1..Len(policies) |->
                urlencoding_encode(policy_to_string(policies[i]))], <<",">>)
    \o <<"]">>

\* fn prepare_query_params: username and rpc_url are inserted as they are.
prepare_query_params(username, rpc_url, policies) ==
    T_username \o <<"=">> \o username
    \o <<"&">> \o T_rpc_url \o <<"=">> \o rpc_url
    \o <<"&">> \o PoliciesParam(policies)

IndexOf(text, c) ==
    IF \E i \in 1..Len(text) : text[i] = c
    THEN CHOOSE i \in 1..Len(text) :
            text[i] = c /\ \A j \in 1..(i - 1) : text[j] # c
    ELSE 0

\* Url::parse of session-page?params: the query ends at the first '#',
\* the rest is the fragment; the parser percent-encodes '"' and ' ' in
\* the query and leaves its other characters alone.
UrlParse(params) ==
    LET cut == IndexOf(params, "#")
        raw == IF cut = 0 THEN params ELSE SubSeq(params, 1, cut - 1)
    IN [page |-> T_session_page,
        query |-> Flatten([i \in 1..Len(raw) |->
                     IF raw[i] \in {"\"", " "}
                     THEN <<"%", CodeOf(raw[i])[2], CodeOf(raw[i])[3]>>
                     ELSE <<raw[i]>>]),
        fragment |-> IF cut = 0 THEN None
                     ELSE Some(SubSeq(params, cut + 1, Len(params)))]

\* form_urlencoded::byte_serialize, used by append_pair.
FormEncode(text) ==
    Flatten([i \in 1..Len(text) |->
                IF text[i] = " " THEN <<"+">>
                ELSE IF IsReserved(text[i])
                THEN <<"%", CodeOf(text[i])[2], CodeOf(text[i])[3]>>
                ELSE <<text[i]>>])

\* url.query_pairs_mut().append_pair(name, value)
append_pair(url, name, value) ==
    [url EXCEPT !.query =
        (IF @ = <<>> THEN <<>> ELSE @ \o <<"&">>)
        \o FormEncode(name) \o <<"=">> \o FormEncode(value)]

\* Url::as_str
as_str(url) ==
    url.page \o <<"?">> \o url.query
    \o (IF url.fragment = None THEN <<>> ELSE <<"#">> \o url.fragment[1])

\* Variant: the callback URI names a fixed port, not the bound one.
CallbackUriFixedPort(p) == T_localhost \o <<"8", "0">> \o T_callback_path

\* format!("http://localhost:{port}/callback") (line 106)
CallbackUri(p) == T_localhost \o ToBase(p, 10) \o T_callback_path

\* The URL text built from the parameters (lines 96, 103-108) and handed
\* to browser::open (line 110).
OpenUrl(params, p) ==
    as_str(append_pair(UrlParse(params), T_callback_uri, CallbackUri(p)))

ApprovalUrl(username, rpc_url, policies, p) ==
    OpenUrl(prepare_query_params(username, rpc_url, policies), p)

\* Inputs of the URL construction.
NameText(a) ==
    IF a = "alice" THEN <<"a", "l", "i", "c", "e">> ELSE <<"b", "o", "b">>

RpcPlain ==
    <<"h", "t", "t", "p", ":", "/", "/", "n", ".", "i", "o">>

RpcWithQuery ==
    <<"h", "t", "t", "p", ":", "/", "/", "n", ".", "i", "o", "?", "k", "=",
      "1", "&", "v", "=", "2">>

RpcWithFragment ==
    <<"h", "t", "t", "p", ":", "/", "/", "n", ".", "i", "o", "#", "f">>

RpcUrls == {RpcPlain, RpcWithQuery, RpcWithFragment}

MethodPlain ==
    <<"m", "i", "n", "t">>

MethodSpecial ==
    <<"a", ",", "[", "]", "&", "%">>

MethodQuoted ==
    <<"q", "\"", "\\">>

PolicyPool ==
    {Policy(26, MethodPlain), Policy(1, MethodSpecial),
     Policy(26, MethodQuoted)}

PolicyLists == UNION {[1..n -> PolicyPool] : n \in 0..MaxPolicies}

NoBuild ==
    [stage |-> "none", username |-> <<>>, rpc_url |-> <<>>,
     policies |-> <<>>, port |-> 0, params |-> <<>>, url |-> <<>>]

BuildInputs ==
    {[stage |-> "input", username |-> NameText(a), rpc_url |-> r,
      policies |-> ps, port |-> p, params |-> <<>>, url |-> <<>>] :
        a \in Accounts, r \in RpcUrls, ps \in PolicyLists, p \in Ports}

\* Line 95: let params = prepare_query_params(username, rpc_url, policies)?
PrepareParams ==
    /\ built.stage = "input"
    /\ built' = [built EXCEPT
                    !.stage = "params",
                    !.params = prepare_query_params(built.username,
                                                    built.rpc_url,
                                                    built.policies)]
    /\ UNCHANGED <<persistVars, handshakeVars>>

\* Lines 96-108: the URL is parsed and the callback URI of the bound port
\* is appended.
AppendCallback ==
    /\ built.stage = "params"
    /\ built' = [built EXCEPT !.stage = "url",
                              !.url = OpenUrl(built.params, built.port)]
    /\ UNCHANGED <<persistVars, handshakeVars>>

(***************************************************************************)
(* The handshake: create, open_session_creation_page, callback_server and  *)
(* the channel between the callback handler and create.                    *)
(***************************************************************************)
\* channel::<Session>(1)
Capacity == 1

ChanIds == Handshakes

ClosedChannel == [buf |-> <<>>, rx |-> FALSE]
OpenChannel == [buf |-> <<>>, rx |-> TRUE]

\* Variant: one channel, built once and shared by every call.
SharedChannel(h) == 1

\* `channel::<Session>(1)` inside open_session_creation_page: every call
\* builds a channel of its own.
NewChannel(h) == h

Delivery(body, session, st) == [body |-> body, session |-> session, st |-> st]

InFlight(h) == {i \in 1..Len(deliveries[h]) : deliveries[h][i].st = "sending"}

\* Live Sender handles of a channel: the one in the router of a LocalServer
\* that has not been dropped, and the clone each running handler holds.
Senders(c) ==
    Cardinality({h \in Handshakes :
                    chanOf[h] = c /\ server[h] \in {"bound", "serving"}})
    + Cardinality({<<h, i>> \in Handshakes \X (1..MaxDeliveries) :
                    chanOf[h] = c /\ i \in InFlight(h)})

TotalDeliveries == Cardinality({<<h, i>> \in Handshakes \X (1..MaxDeliveries) :
                                   i <= Len(deliveries[h])})

BoundPorts == {port[h] : h \in Handshakes} \ {0}

\* A create call returns `r` to its caller.
Return(h, r) ==
    /\ pc' = [pc EXCEPT ![h] = "done"]
    /\ result' = [result EXCEPT ![h] = r]
    /\ returns' = [returns EXCEPT ![h] = @ + 1]

\* create, lines 79-80: Credentials::load()? and account.expect(..).
CreateStart(h) ==
    /\ pc[h] = "idle"
    /\ IF ~cred.loaded
       THEN Return(h, Err("CredentialsLoadFailed")) /\ UNCHANGED user
       ELSE IF cred.account = None
       THEN /\ pc' = [pc EXCEPT ![h] = "panicked"]
            /\ result' = [result EXCEPT ![h] = Panic("id must exist")]
            /\ UNCHANGED <<user, returns>>
       ELSE /\ pc' = [pc EXCEPT ![h] = "bind"]
            /\ user' = [user EXCEPT ![h] = cred.account[1]]
            /\ UNCHANGED <<result, returns>>
    /\ UNCHANGED <<staged, port, server, chanOf, chan, deliveries, opened>>
    /\ UNCHANGED binds
    /\ UNCHANGED <<persistVars, encodeVars>>

\* prepare_query_params(..)? fails (line 95): create returns the error
\* before a channel or a callback server exists.
EncodeFail(h) ==
    /\ pc[h] = "bind"
    /\ Return(h, Err("PolicyEncodingFailed"))
    /\ UNCHANGED <<staged, user, port, server, chanOf, chan, deliveries,
                   opened, binds>>
    /\ UNCHANGED <<persistVars, encodeVars>>

\* open_session_creation_page, lines 95-102: the channel is built and the
\* callback server binds an OS-assigned port.
BindOk(h, p) ==
    /\ pc[h] = "bind"
    /\ p \in Ports \ BoundPorts
    /\ chanOf' = [chanOf EXCEPT ![h] = NewChannel(h)]
    /\ chan' = [chan EXCEPT ![NewChannel(h)] = OpenChannel]
    /\ server' = [server EXCEPT ![h] = "bound"]
    /\ port' = [port EXCEPT ![h] = p]
    /\ pc' = [pc EXCEPT ![h] = "browser"]
    /\ binds' = [binds EXCEPT ![h] = @ + 1]
    /\ UNCHANGED <<staged, user, deliveries, opened, result, returns>>
    /\ UNCHANGED <<persistVars, encodeVars>>

\* Variant: a failed bind is tried once more before create gives up.
BindFailRetry(h) ==
    /\ pc[h] = "bind"
    /\ chanOf' = [chanOf EXCEPT ![h] = NewChannel(h)]
    /\ chan' = [chan EXCEPT ![NewChannel(h)] = ClosedChannel]
    /\ binds' = [binds EXCEPT ![h] = @ + 1]
    /\ IF binds[h] = 0
       THEN UNCHANGED <<pc, result, returns>>
       ELSE Return(h, Err("EndpointBindFailed"))
    /\ UNCHANGED <<staged, user, port, server, deliveries, opened>>
    /\ UNCHANGED <<persistVars, encodeVars>>

\* callback_server(tx)? fails: tx and rx are dropped, create returns the error.
BindFail(h) ==
    /\ pc[h] = "bind"
    /\ chanOf' = [chanOf EXCEPT ![h] = NewChannel(h)]
    /\ chan' = [chan EXCEPT ![NewChannel(h)] = ClosedChannel]
    /\ Return(h, Err("EndpointBindFailed"))
    /\ binds' = [binds EXCEPT ![h] = @ + 1]
    /\ UNCHANGED <<staged, user, port, server, deliveries, opened>>
    /\ UNCHANGED <<persistVars, encodeVars>>

\* The provider URL and the policies each create call is given.
RpcOf == <<RpcPlain, RpcWithQuery>>
PoliciesOf ==
    <<<<Policy(26, MethodPlain)>>,
      <<Policy(1, MethodSpecial), Policy(26, MethodQuoted)>>>>

\* A browser::open call of handshake h: the port read from the callback
\* server (line 102) for the URL, and whether the launcher succeeds.
Launch(h, ok) == [port |-> port[h], ok |-> ok]

\* The URL text open_session_creation_page builds for each username,
\* create call and bound port.
UrlOf ==
    [a \in Accounts, h \in Handshakes, p \in Ports |->
        ApprovalUrl(NameText(a), RpcOf[h], PoliciesOf[h], p)]

\* browser::open(url)? succeeds (line 110).
BrowserOpenOk(h) ==
    /\ pc[h] = "browser"
    /\ opened' = [opened EXCEPT ![h] = Append(@, Launch(h, TRUE))]
    /\ pc' = [pc EXCEPT ![h] = "spawn"]
    /\ UNCHANGED <<staged, user, port, server,
                   chanOf, chan, deliveries, result, returns>>
    /\ UNCHANGED binds
    /\ UNCHANGED <<persistVars, encodeVars>>

\* Variant: the serving task is spawned before the browser is opened, so a
\* launcher failure leaves the endpoint serving.
SpawnThenBrowserOpenFail(h) ==
    /\ pc[h] = "browser"
    /\ opened' = [opened EXCEPT ![h] = Append(@, Launch(h, FALSE))]
    /\ server' = [server EXCEPT ![h] = "serving"]
    /\ chan' = [chan EXCEPT ![chanOf[h]] = ClosedChannel]
    /\ Return(h, Err("BrowserLaunchFailed"))
    /\ UNCHANGED <<staged, user, port, chanOf, deliveries>>
    /\ UNCHANGED binds
    /\ UNCHANGED <<persistVars, encodeVars>>

\* browser::open(url)? fails: the function returns before tokio::spawn, so
\* the server (with the router's Sender) and the Receiver are dropped.
BrowserOpenFail(h) ==
    /\ pc[h] = "browser"
    /\ opened' = [opened EXCEPT ![h] = Append(@, Launch(h, FALSE))]
    /\ server' = [server EXCEPT ![h] = "dropped"]
    /\ port' = [port EXCEPT ![h] = 0]
    /\ chan' = [chan EXCEPT ![chanOf[h]] = ClosedChannel]
    /\ Return(h, Err("BrowserLaunchFailed"))
    /\ UNCHANGED <<staged, user, chanOf, deliveries>>
    /\ UNCHANGED binds
    /\ UNCHANGED <<persistVars, encodeVars>>

\* tokio::spawn(server.start()); Ok(rx)  (lines 111-113)
Spawn(h) ==
    /\ pc[h] = "spawn"
    /\ server' = [server EXCEPT ![h] = "serving"]
    /\ pc' = [pc EXCEPT ![h] = "recv"]
    /\ UNCHANGED <<staged, user, port, chanOf,
                   chan, deliveries, opened, result, returns>>
    /\ UNCHANGED binds
    /\ UNCHANGED <<persistVars, encodeVars>>

\* Variant: a Sender outlives the endpoint (create keeps a clone), so the
\* receive never observes the channel closing.
RecvPollNeverClosed(buf, senders) ==
    IF buf # <<>> THEN [ready |-> TRUE, val |-> Some(Head(buf))]
    ELSE [ready |-> FALSE, val |-> None]

\* Variant: the receive gives up on an empty buffer (a wait with a timeout).
RecvPollTimeout(buf, senders) ==
    IF buf # <<>> THEN [ready |-> TRUE, val |-> Some(Head(buf))]
    ELSE [ready |-> TRUE, val |-> None]

\* Receiver::recv: the oldest buffered value; None once the buffer is empty
\* and every Sender is gone; pending otherwise.
RecvPoll(buf, senders) ==
    IF buf # <<>> THEN [ready |-> TRUE, val |-> Some(Head(buf))]
    ELSE IF senders = 0 THEN [ready |-> TRUE, val |-> None]
    ELSE [ready |-> FALSE, val |-> None]

\* Variant: the error context is attached to the wrong branch.
RecvResultInverted(val) ==
    IF val = None THEN Err("ChannelClosed") ELSE Err("Channel dropped.")

\* Variant: a closed channel is answered with a Session made on the spot.
RecvResultDefault(val) == IF val = None THEN Ok(SessionB) ELSE Ok(val[1])

\* `rx.recv().await.context("Channel dropped.")?` wrapped in Ok (line 85).
RecvResult(val) == IF val = None THEN Err("ChannelClosed") ELSE Ok(val[1])

\* create, line 85: rx.recv().await completes; a value it yields leaves
\* the buffer, which frees the channel's one permit.
Recv(h) ==
    LET c == chanOf[h]
        polled == RecvPoll(chan[c].buf, Senders(c))
    IN /\ pc[h] = "recv"
       /\ polled.ready
       /\ chan' = [chan EXCEPT ![c].buf = IF @ = <<>> THEN @ ELSE Tail(@)]
       /\ staged' = [staged EXCEPT ![h] = polled.val]
       /\ pc' = [pc EXCEPT ![h] = "return"]
       /\ UNCHANGED <<user, port, server, chanOf, deliveries, opened,
                      result, returns>>
       /\ UNCHANGED binds
       /\ UNCHANGED <<persistVars, encodeVars>>

\* Variant: create returns but the Receiver stays alive (rx is leaked).
CreateReturnKeepsRx(h) ==
    /\ pc[h] = "return"
    /\ Return(h, RecvResult(staged[h]))
    /\ UNCHANGED <<user, port, server, chanOf, chan, deliveries, opened,
                   staged>>
    /\ UNCHANGED binds
    /\ UNCHANGED <<persistVars, encodeVars>>

\* create, lines 85-86: create returns and rx is dropped, which closes the
\* channel and discards what is buffered.  On a multi-threaded runtime a
\* handler can run between recv() completing and this drop.
CreateReturn(h) ==
    /\ pc[h] = "return"
    /\ chan' = [chan EXCEPT ![chanOf[h]] = ClosedChannel]
    /\ Return(h, RecvResult(staged[h]))
    /\ UNCHANGED <<user, port, server, chanOf, deliveries, opened, staged>>
    /\ UNCHANGED binds
    /\ UNCHANGED <<persistVars, encodeVars>>

\* Variant: missing or bad fields fall back to defaults (an empty Session
\* like SessionB) instead of failing the extraction.
ExtractLenient(body) ==
    IF SessionFromJson(body) = None
    THEN Delivery(body, Some(SessionB), "sending")
    ELSE Delivery(body, SessionFromJson(body), "sending")

\* The Json<Session> extractor of the handler (line 135): a body that does
\* not decode is answered by the extractor's rejection and the handler
\* body never runs.
Extract(body) ==
    IF SessionFromJson(body) = None THEN Delivery(body, None, "rejected")
    ELSE Delivery(body, SessionFromJson(body), "sending")

\* Whether a Session delivered to h's endpoint has been sent into its channel.
Fulfilled(h) == \E i \in 1..Len(deliveries[h]) : deliveries[h][i].st = "ok"

\* POST /callback reaches the serving endpoint of handshake h; requests
\* are logged in the order the endpoint takes them.
Deliver(h, body) ==
    /\ server[h] = "serving"
    /\ TotalDeliveries < MaxDeliveries
    /\ deliveries' = [deliveries EXCEPT ![h] = Append(@, Extract(body))]
    /\ UNCHANGED <<staged, pc, user, port, server,
                   chanOf, chan, opened, result, returns>>
    /\ UNCHANGED binds
    /\ UNCHANGED <<persistVars, encodeVars>>

\* Sender::send on a channel state: an error once the Receiver is gone,
\* the value buffered when there is room, pending while the buffer is full.
SendPoll(ch, session) ==
    IF ~ch.rx THEN [ready |-> TRUE, ok |-> FALSE, chan |-> ch]
    ELSE IF Len(ch.buf) < Capacity
    THEN [ready |-> TRUE, ok |-> TRUE,
          chan |-> [ch EXCEPT !.buf = Append(@, session)]]
    ELSE [ready |-> FALSE, ok |-> FALSE, chan |-> ch]

\* The handler body (lines 136-137):
\* tx.send(session).await.expect("qed; channel closed").
HandlerSend(h, i) ==
    LET c == chanOf[h]
        sent == SendPoll(chan[c], deliveries[h][i].session[1])
    IN /\ i \in InFlight(h)
       /\ sent.ready
       /\ chan' = [chan EXCEPT ![c] = sent.chan]
       /\ deliveries' = [deliveries EXCEPT ![h][i].st =
                            IF sent.ok THEN "ok" ELSE "panicked"]
       /\ UNCHANGED <<staged, pc, user, port,
                      server, chanOf, opened, result, returns>>
       /\ UNCHANGED binds
       /\ UNCHANGED <<persistVars, encodeVars>>

\* The spawned serving task ends (it fails or is aborted): the router and
\* its Sender are dropped, the port is released.
ServerStop(h) ==
    /\ server[h] = "serving"
    /\ server' = [server EXCEPT ![h] = "ended"]
    /\ port' = [port EXCEPT ![h] = 0]
    /\ UNCHANGED <<staged, pc, user, chanOf,
                   chan, deliveries, opened, result, returns>>
    /\ UNCHANGED binds
    /\ UNCHANGED <<persistVars, encodeVars>>

(***************************************************************************)
(* Specifications.                                                         *)
(***************************************************************************)
HandshakeInit ==
    /\ pc = [h \in Handshakes |-> "idle"]
    /\ user = [h \in Handshakes |-> ""]
    /\ port = [h \in Handshakes |-> 0]
    /\ server = [h \in Handshakes |-> "none"]
    /\ chanOf = [h \in Handshakes |-> 0]
    /\ chan = [c \in ChanIds |-> ClosedChannel]
    /\ deliveries = [h \in Handshakes |-> <<>>]
    /\ opened = [h \in Handshakes |-> <<>>]
    /\ binds = [h \in Handshakes |-> 0]
    /\ staged = [h \in Handshakes |-> None]
    /\ result = [h \in Handshakes |-> NotReturned]
    /\ returns = [h \in Handshakes |-> 0]

\* The handshakes of one process, under each state of the Credential Store.
Init ==
    /\ cred \in {LoadFailed, LoggedOut, LoggedIn("alice")}
    /\ fs = FreshFs
    /\ lastOp = NoOp
    /\ latest = [k \in Keys |-> None]
    /\ HandshakeInit
    /\ built = NoBuild

Next ==
    \/ \E h \in Handshakes : CreateStart(h)
    \/ \E h \in Handshakes, p \in Ports : BindOk(h, p)
    \/ \E h \in Handshakes : EncodeFail(h)
    \/ \E h \in Handshakes : BindFail(h)
    \/ \E h \in Handshakes : BrowserOpenOk(h)
    \/ \E h \in Handshakes : BrowserOpenFail(h)
    \/ \E h \in Handshakes : Spawn(h)
    \/ \E h \in Handshakes : Recv(h)
    \/ \E h \in Handshakes : CreateReturn(h)
    \/ \E h \in Handshakes, body \in Bodies : Deliver(h, body)
    \/ \E h \in Handshakes, i \in 1..MaxDeliveries : HandlerSend(h, i)
    \/ \E h \in Handshakes : ServerStop(h)

Spec == Init /\ [][Next]_vars

\* The runtime keeps polling a create call whose receive is ready or which
\* is returning, and a handler whose send is ready.
Fairness ==
    /\ \A h \in Handshakes : WF_vars(Recv(h))
    /\ \A h \in Handshakes : WF_vars(CreateReturn(h))
    /\ \A h \in Handshakes, i \in 1..MaxDeliveries : WF_vars(HandlerSend(h, i))

FairSpec == Init /\ [][Next]_vars /\ Fairness

\* get and store calls, from each file system and with the Credential
\* Store changing between calls.
PersistInit ==
    /\ cred \in CredentialStates
    /\ fs \in InitialFileSystems
    /\ lastOp = NoOp
    /\ latest = [k \in Keys |-> None]
    /\ HandshakeInit
    /\ built = NoBuild

PersistNext ==
    \/ \E c \in ChainIds : Get(c)
    \/ \E c \in ChainIds, s \in Sessions : Store(c, s)
    \/ \E c \in CredentialStates : SetCredentials(c)

PersistSpec == PersistInit /\ [][PersistNext]_vars

\* The approval URL built from each username, provider URL, policy list
\* and bound port.
EncodeInit ==
    /\ cred = LoggedIn("alice")
    /\ fs = FreshFs
    /\ lastOp = NoOp
    /\ latest = [k \in Keys |-> None]
    /\ HandshakeInit
    /\ built \in BuildInputs

EncodeNext == PrepareParams \/ AppendCallback

EncodeSpec == EncodeInit /\ [][EncodeNext]_vars

(***************************************************************************)
(* Properties of get and store (checked under PersistSpec).                *)
(***************************************************************************)
Called == lastOp.op \in {"get", "store"}

Authenticated == lastOp.cred.loaded /\ lastOp.cred.account # None

NoAccount == lastOp.cred.loaded /\ lastOp.cred.account = None

CalledPath == get_file_path(lastOp.cred.account[1], lastOp.chain)

\* C3: when the Credential Store loads but holds no account, create, get
\* and store each return an IdentityUnavailable error to the caller (no
\* panic, no hang) and leave the file system, the endpoints and the browser
\* untouched.
C3_IdentityUnavailable ==
    /\ Called /\ NoAccount =>
          /\ lastOp.out = Err("IdentityUnavailable")
          /\ lastOp.before = Some(fs)
    /\ \A h \in Handshakes :
          pc[h] # "idle" /\ cred = LoggedOut =>
             /\ result[h] = Err("IdentityUnavailable")
             /\ pc[h] = "done"
             /\ server[h] = "none" /\ opened[h] = None

\* C4: get(chain_id) after store(chain_id, session) for the same
\* authenticated account returns a Session equal to the stored one, from
\* any file system the store started from.
C4_StoreGetRoundTrip ==
    lastOp.op = "store" /\ Authenticated =>
       GetOutcome(lastOp.cred, fs, lastOp.chain) = Ok(lastOp.arg[1])

\* C5: store creates the missing parent directories (and nothing when they
\* exist), then writes the session file at
\* <config dir>/slot/<account>/<chain-id-hex>-session.json; it succeeds on
\* the first call for an account without a directory, and the session path
\* is a regular file, never a directory.
C5_StoreCreatesParents ==
    /\ \A p \in FilePaths : fs[p].kind # "dir"
    /\ lastOp.op = "store" /\ Authenticated =>
          /\ lastOp.out = OkUnit
          /\ fs[CalledPath] = File(to_string_pretty(lastOp.arg[1]))
          /\ \A q \in Prefixes(Parent(CalledPath)) : fs[q] = Dir
          /\ \A q \in Paths \ Prefixes(CalledPath) : fs[q] = lastOp.before[1][q]

\* C6: after any sequence of store calls for one (account, chain id), get
\* returns the session of the most recent of them, and never a session an
\* earlier store wrote for that pair.
C6_Overwrite ==
    \A k \in Keys :
       latest[k] # None =>
          GetOutcome(LoggedIn(k[1]), fs, k[2]) = Ok(latest[k][1])

(***************************************************************************)
(* Properties of the handshake (checked under Spec and FairSpec).          *)
(***************************************************************************)
ValidAt(h, i) == i <= Len(deliveries[h]) /\ deliveries[h][i].session # None

MalformedAt(h, i) ==
    i <= Len(deliveries[h]) /\ SessionFromJson(deliveries[h][i].body) = None

ValidCount(h) == Cardinality({i \in 1..MaxDeliveries : ValidAt(h, i)})

\* The Session a posted body spells out, field for field.
Spelled(body) == IF body = BodyA THEN SessionA ELSE SessionB

ReturnedSessionOf(h, i) ==
    ValidAt(h, i) /\ result[h] = Ok(Spelled(deliveries[h][i].body))

\* C1: a valid Session payload delivered exactly once to a handshake's
\* callback endpoint makes create eventually return; create returns exactly
\* the Session the payload decodes to, and returns exactly once.
C1_SingleDelivery ==
    /\ [](\A h \in Handshakes : returns[h] <= 1)
    /\ [](\A h \in Handshakes, i \in 1..MaxDeliveries :
             ValidAt(h, i) /\ ValidCount(h) = 1 /\ pc[h] = "done" =>
                ReturnedSessionOf(h, i) /\ returns[h] = 1)
    /\ \A h \in Handshakes, i \in 1..MaxDeliveries :
          ValidAt(h, i) ~> (ReturnedSessionOf(h, i) \/ ValidCount(h) > 1)

C1_Witness ==
    \E h \in Handshakes :
       /\ Len(deliveries[h]) = 1
       /\ deliveries[h][1].body = BodyA
       /\ result[h] = Ok(SessionA)
       /\ returns[h] = 1

\* A step in which h's endpoint takes a request whose body does not decode.
MalformedStep(h) ==
    /\ Len(deliveries'[h]) = Len(deliveries[h]) + 1
    /\ SessionFromJson(deliveries'[h][Len(deliveries'[h])].body) = None

\* C2: a POST /callback whose body does not decode as a Session is rejected,
\* sends nothing into the channel, does not close it and does not make
\* create return; a valid delivery after malformed ones still makes create
\* return that valid Session.
C2_MalformedRejected ==
    /\ [][\A h \in Handshakes :
             MalformedStep(h) =>
                /\ deliveries'[h][Len(deliveries'[h])].st = "rejected"
                /\ UNCHANGED <<chan, pc, staged, result, returns, server>>
                /\ \A c \in ChanIds : Senders(c)' = Senders(c)]_vars
    /\ [](\A h \in Handshakes, i \in 1..MaxDeliveries :
             MalformedAt(h, i) =>
                /\ deliveries[h][i].st = "rejected"
                /\ deliveries[h][i].session = None)
    /\ \A h \in Handshakes, i \in 2..MaxDeliveries :
          (ValidAt(h, i) /\ \A j \in 1..(i - 1) : MalformedAt(h, j))
             ~> (ReturnedSessionOf(h, i) \/ ValidCount(h) > 1)

C2_Witness ==
    \E h \in Handshakes :
       /\ Len(deliveries[h]) = 3
       /\ MalformedAt(h, 1) /\ deliveries[h][1].st = "rejected"
       /\ MalformedAt(h, 2) /\ deliveries[h][2].st = "rejected"
       /\ deliveries[h][1].body # deliveries[h][2].body
       /\ ReturnedSessionOf(h, 3)

\* C7: a valid callback delivery that the endpoint takes after an earlier
\* valid delivery is rejected with a conflict response: its handler never
\* panics and never answers with a success status.
C7_DuplicateRejected ==
    \A h \in Handshakes, i \in 2..MaxDeliveries :
       ValidAt(h, i) /\ (\E j \in 1..(i - 1) : ValidAt(h, j)) =>
          deliveries[h][i].st \notin {"ok", "panicked"}

BrowserFailed(h) == opened[h] # None /\ ~opened[h][1].ok

\* C8: if the Browser Launcher fails, create returns a BrowserLaunchFailed
\* error, the serving task is not started, the endpoint and the channel's
\* sender are dropped and no callback is accepted for that handshake.
C8_BrowserFailureAborts ==
    \A h \in Handshakes :
       BrowserFailed(h) =>
          /\ pc[h] = "done"
          /\ result[h] = Err("BrowserLaunchFailed")
          /\ server[h] = "dropped"
          /\ port[h] = 0
          /\ Senders(chanOf[h]) = 0
          /\ ~chan[chanOf[h]].rx
          /\ deliveries[h] = <<>>

C8_Witness ==
    \E h \in Handshakes :
       /\ BrowserFailed(h)
       /\ returns[h] = 1
       /\ \E g \in Handshakes \ {h} : Fulfilled(g)

NothingSent(h) ==
    \A i \in 1..Len(deliveries[h]) : deliveries[h][i].st # "ok"

ProducerGone(h) ==
    pc[h] = "recv" /\ Senders(chanOf[h]) = 0 /\ NothingSent(h)

\* C9: when every sender of the channel is dropped before any Session was
\* sent, create's wait ends and create returns a ChannelClosed error: it
\* does not hang, does not retry and does not return a Session.
C9_ChannelClosed ==
    /\ \A h \in Handshakes :
          ProducerGone(h) ~> (result[h] = Err("ChannelClosed"))
    /\ [](\A h \in Handshakes :
             result[h] = Err("ChannelClosed") =>
                /\ pc[h] = "done" /\ returns[h] = 1
                /\ staged[h] = None /\ NothingSent(h))
    /\ [][\A h \in Handshakes :
             ProducerGone(h) /\ pc'[h] # "recv" =>
                pc'[h] = "return" /\ staged'[h] = None]_vars

C9_Witness ==
    \E h \in Handshakes :
       /\ result[h] = Err("ChannelClosed")
       /\ server[h] = "ended"
       /\ Len(deliveries[h]) > 0

DeliveredTo(h, s) ==
    \E i \in 1..Len(deliveries[h]) : deliveries[h][i].session = Some(s)

\* C10: each create call builds a channel and an endpoint of its own; with
\* two handshakes running concurrently, a Session delivered to the endpoint
\* of one is never returned by the other's create, in any interleaving.
C10_FreshChannelPerHandshake ==
    \A a \in Handshakes : \A b \in Handshakes \ {a} :
       /\ chanOf[a] # 0 => chanOf[a] # chanOf[b]
       /\ port[a] # 0 => port[a] # port[b]
       /\ \A s \in Sessions :
             DeliveredTo(a, s) /\ ~DeliveredTo(b, s) =>
                result[b] # Ok(s) /\ staged[b] # Some(s)

C10_Witness ==
    \E a \in Handshakes : \E b \in Handshakes \ {a} :
       /\ result[a] = Ok(SessionA) /\ ~DeliveredTo(a, SessionB)
       /\ result[b] = Ok(SessionB) /\ ~DeliveredTo(b, SessionA)
       /\ server[a] = "serving" /\ server[b] = "serving"

(***************************************************************************)
(* Properties of the approval URL (checked under EncodeSpec).              *)
(***************************************************************************)
LastIndexOf(text, c) ==
    IF \E i \in 1..Len(text) : text[i] = c
    THEN CHOOSE i \in 1..Len(text) :
            text[i] = c /\ \A j \in (i + 1)..Len(text) : text[j] # c
    ELSE 0

\* The fragments between the occurrences of c; a text without c is one
\* fragment, the empty text included.
Split(text, c) ==
    LET at == {i \in 1..Len(text) : text[i] = c}
        pos(k) == IF k = 0 THEN 0
                  ELSE IF k > Cardinality(at) THEN Len(text) + 1
                  ELSE CHOOSE i \in at :
                          Cardinality({j \in at : j < i}) = k - 1
    IN [k \in 1..(Cardinality(at) + 1) |->
           SubSeq(text, pos(k - 1) + 1, pos(k) - 1)]

\* What follows a '%': the byte of a known two-digit code, or the '%'.
DecodeEscape(rest) ==
    IF /\ Len(rest) >= 2
       /\ \E t \in ReservedCodes : t[2] = rest[1] /\ t[3] = rest[2]
    THEN <<(CHOOSE t \in ReservedCodes :
               t[2] = rest[1] /\ t[3] = rest[2])[1]>>
         \o SubSeq(rest, 3, Len(rest))
    ELSE <<"%">> \o rest

percent_decode(text) ==
    LET parts == Split(text, "%")
    IN parts[1]
       \o Flatten([k \in 1..(Len(parts) - 1) |-> DecodeEscape(parts[k + 1])])

HasAt(text, i, lit) ==
    i + Len(lit) - 1 <= Len(text) /\ SubSeq(text, i, i + Len(lit) - 1) = lit

\* Reads a JSON string whose opening quote is before position i.
RECURSIVE ReadChars(_, _, _)
ReadChars(text, i, acc) ==
    IF i > Len(text) THEN [ok |-> FALSE, val |-> acc, next |-> i]
    ELSE IF text[i] = "\"" THEN [ok |-> TRUE, val |-> acc, next |-> i + 1]
    ELSE IF text[i] = "\\"
    THEN IF i + 1 <= Len(text) /\ text[i + 1] \in {"\"", "\\"}
         THEN ReadChars(text, i + 2, Append(acc, text[i + 1]))
         ELSE [ok |-> FALSE, val |-> acc, next |-> i]
    ELSE ReadChars(text, i + 1, Append(acc, text[i]))

ReadString(text, i) ==
    IF HasAt(text, i, <<"\"">>) THEN ReadChars(text, i + 1, <<>>)
    ELSE [ok |-> FALSE, val |-> <<>>, next |-> i]

\* Parses {"target":"<felt>","method":"<method>"} as a Policy.
policy_from_str(text) ==
    LET k1 == <<"{">> \o JsonString(T_target) \o <<":">>
        k2 == <<",">> \o JsonString(T_method) \o <<":">>
        s1 == ReadString(text, Len(k1) + 1)
        s2 == ReadString(text, s1.next + Len(k2))
    IN IF /\ HasAt(text, 1, k1)
          /\ s1.ok
          /\ HasAt(text, s1.next, k2)
          /\ s2.ok
          /\ s2.next = Len(text)
          /\ text[s2.next] = "}"
          /\ FeltFromStr(s1.val) # None
       THEN Some(Policy(FeltFromStr(s1.val)[1], s2.val))
       ELSE None

\* The policies=[...] part of the parameters: what follows the last '&'.
PoliciesPart(params) ==
    SubSeq(params, LastIndexOf(params, "&") + 1, Len(params))

Bracketed(part) ==
    /\ HasAt(part, 1, T_policies \o <<"=", "[">>)
    /\ part[Len(part)] = "]"

BracketContents(part) ==
    SubSeq(part, Len(T_policies) + 3, Len(part) - 1)

\* Split the fragments on ',', percent-decode each, parse each as a Policy.
DecodeFragments(contents) ==
    LET parsed == [i \in 1..Len(Split(contents, ",")) |->
                      policy_from_str(
                         percent_decode(Split(contents, ",")[i]))]
    IN IF \E i \in 1..Len(parsed) : parsed[i] = None THEN None
       ELSE Some([i \in 1..Len(parsed) |-> parsed[i][1]])

ParamsBuilt == built.stage \in {"params", "url"}

\* C11 as stated: splitting the bracket contents on ',', percent-decoding
\* each fragment and parsing each as a Policy recovers every policy list,
\* the empty one included.
C11_RoundTripBySplit ==
    ParamsBuilt =>
       /\ Bracketed(PoliciesPart(built.params))
       /\ DecodeFragments(BracketContents(PoliciesPart(built.params)))
             = Some(built.policies)

\* C11, amended: empty bracket contents stand for the empty list; any other
\* contents, split on ',', percent-decoded and parsed fragment by fragment,
\* give back the encoded list of policies: same length, same order, same
\* target and method values, whatever characters the methods contain.
C11_RoundTrip ==
    ParamsBuilt =>
       /\ Bracketed(PoliciesPart(built.params))
       /\ LET contents == BracketContents(PoliciesPart(built.params))
          IN IF contents = <<>> THEN built.policies = <<>>
             ELSE DecodeFragments(contents) = Some(built.policies)

C11_Witness ==
    /\ ParamsBuilt
    /\ Len(built.policies) = 2
    /\ built.policies[1] = Policy(1, MethodSpecial)
    /\ built.policies[2] = Policy(26, MethodQuoted)
    /\ DecodeFragments(BracketContents(PoliciesPart(built.params)))
          = Some(built.policies)

(***************************************************************************)
(* Further properties of the handshake (checked under Spec).               *)
(***************************************************************************)
\* The i-th request of h's endpoint carried a body that decodes to s, and
\* its handler's send of s into the channel has completed.
SentAt(h, i, s) ==
    /\ i <= Len(deliveries[h])
    /\ deliveries[h][i].st = "ok"
    /\ SessionFromJson(deliveries[h][i].body) = Some(s)

\* C12: the receive of create yields a Session only in a step that starts
\* with a completed send of that Session by a handler of the same
\* handshake; every Session create returns was decoded from a body posted
\* to that handshake's /callback, and create builds no Session of its own.
C12_SendBeforeReturn ==
    /\ [][\A h \in Handshakes :
             staged[h] = None /\ staged'[h] # None =>
                \E i \in 1..MaxDeliveries : SentAt(h, i, staged'[h][1])]_vars
    /\ [](\A h \in Handshakes :
             result[h].tag = "Ok" =>
                \E i \in 1..MaxDeliveries : SentAt(h, i, result[h].val[1]))
    /\ [](\A h \in Handshakes :
             result[h].tag = "Ok" => staged[h] = Some(result[h].val[1]))

C12_Witness ==
    \E h \in Handshakes :
       /\ Len(deliveries[h]) = 2
       /\ deliveries[h][1].st = "rejected"
       /\ SentAt(h, 2, SessionA)
       /\ result[h] = Ok(SessionA)

\* C13: whenever a handler holds a decoded Session to send, the Receiver
\* of its channel is still alive, and no handler panics on its send,
\* deliveries taken after create has returned included.
C13_SendNeverFails ==
    \A h \in Handshakes, i \in 1..MaxDeliveries :
       ValidAt(h, i) =>
          /\ deliveries[h][i].st = "sending" => chan[chanOf[h]].rx
          /\ deliveries[h][i].st # "panicked"

\* The query of a URL text: what follows the first '?', up to the first '#'.
QueryOf(url) ==
    LET q == SubSeq(url, IndexOf(url, "?") + 1, Len(url))
    IN IF IndexOf(q, "#") = 0 THEN q ELSE SubSeq(q, 1, IndexOf(q, "#") - 1)

\* application/x-www-form-urlencoded decoding of a name or a value.
FormDecode(text) ==
    percent_decode([i \in 1..Len(text) |->
                       IF text[i] = "+" THEN " " ELSE text[i]])

\* The name=value pairs of a URL's query, in order, decoded.
QueryPairs(url) ==
    LET parts == Split(QueryOf(url), "&")
        name(t) == IF IndexOf(t, "=") = 0 THEN t
                   ELSE SubSeq(t, 1, IndexOf(t, "=") - 1)
        value(t) == IF IndexOf(t, "=") = 0 THEN <<>>
                    ELSE SubSeq(t, IndexOf(t, "=") + 1, Len(t))
    IN [k \in 1..Len(parts) |->
           <<FormDecode(name(parts[k])), FormDecode(value(parts[k]))>>]

\* http://localhost:<p>/callback, spelled out.
LocalCallback(p) ==
    <<"h", "t", "t", "p", ":", "/", "/", "l", "o", "c", "a", "l", "h", "o",
      "s", "t", ":">> \o ToBase(p, 10)
    \o <<"/", "c", "a", "l", "l", "b", "a", "c", "k">>

\* The decoded query pairs of each URL the handshakes can build.
PairsOf ==
    [a \in Accounts, h \in Handshakes, p \in Ports |->
        QueryPairs(UrlOf[a, h, p])]

\* The k-th browser::open call of h was given a URL whose query holds the
\* pair (callback_uri, http://localhost:<p>/callback).
CarriesCallback(h, k, p) ==
    LET pairs == PairsOf[user[h], h, opened[h][k].port]
    IN \E n \in 1..Len(pairs) :
          pairs[n] = <<T_callback_uri, LocalCallback(p)>>

ServingStarted(h) == server[h] \in {"serving", "ended"}

\* C14: browser::open is called only with the callback server bound and its
\* port known, and the URL it is given carries
\* callback_uri=http://localhost:<port>/callback for exactly that port; the
\* serving task is started only after browser::open succeeded, and it is
\* started by the time create waits on the channel.
C14_LaunchAfterBind ==
    /\ [][\A h \in Handshakes :
             opened'[h] # opened[h] =>
                /\ server[h] = "bound" /\ port[h] \in Ports
                /\ Len(opened'[h]) = Len(opened[h]) + 1
                /\ opened'[h][Len(opened'[h])].port = port[h]]_vars
    /\ [][\A h \in Handshakes :
             ~ServingStarted(h) /\ ServingStarted(h)' =>
                /\ opened[h] # <<>> /\ opened[h][Len(opened[h])].ok
                /\ pc[h] # "recv"]_vars
    /\ [](\A h \in Handshakes :
             /\ \A k \in 1..Len(opened[h]) :
                   CarriesCallback(h, k, opened[h][k].port)
             /\ ServingStarted(h) => opened[h] # <<>> /\ opened[h][1].ok
             /\ pc[h] \in {"recv", "return"} => ServingStarted(h))

C14_Witness ==
    \E h \in Handshakes :
       /\ pc[h] = "recv" /\ server[h] = "serving"
       /\ port[h] = 2
       /\ opened[h][1].ok /\ opened[h][1].port = 2
       /\ CarriesCallback(h, 1, 2)
       /\ ~CarriesCallback(h, 1, 1)

SentCount(h) ==
    Cardinality({i \in 1..Len(deliveries[h]) : deliveries[h][i].st = "ok"})

\* C15: whatever the deliveries to one endpoint, at most one handler's send
\* into the channel succeeds, the channel never holds more than one
\* Session, and create completes at most one receive and returns once.
C15_AtMostOneSend ==
    \A h \in Handshakes :
       /\ SentCount(h) <= 1
       /\ \A c \in ChanIds : Len(chan[c].buf) <= Capacity
       /\ returns[h] <= 1

\* C16: as long as h's endpoint is serving and no valid callback has been
\* delivered to it, create is blocked in its receive: the receive cannot
\* complete and create has returned neither a Session nor an error,
\* however many malformed callbacks have arrived.
C16_UnboundedWait ==
    \A h \in Handshakes :
       server[h] = "serving" /\ ValidCount(h) = 0 =>
          /\ pc[h] = "recv"
          /\ ~ENABLED Recv(h)
          /\ staged[h] = None
          /\ result[h] = NotReturned /\ returns[h] = 0

C16_Witness ==
    \E h \in Handshakes :
       /\ server[h] = "serving"
       /\ Len(deliveries[h]) = MaxDeliveries
       /\ \A i \in 1..MaxDeliveries : deliveries[h][i].st = "rejected"
       /\ pc[h] = "recv" /\ result[h] = NotReturned

ReturnedSession(h) == pc[h] = "done" /\ result[h].tag = "Ok"

\* C17 as stated: once create has returned its Session, the endpoint of
\* that handshake takes no further POST /callback request.
C17_EndpointStops ==
    [][\A h \in Handshakes :
          ReturnedSession(h) => deliveries'[h] = deliveries[h]]_vars

\* C17, amended: once create has returned its Session the endpoint is
\* abandoned, not stopped; it may still take POST /callback requests, but
\* no send into the channel succeeds any more, the channel stays closed
\* and empty, and what create returned does not change.
C17_EndpointAbandoned ==
    [][\A h \in Handshakes :
          ReturnedSession(h) =>
             /\ SentCount(h)' = SentCount(h)
             /\ chan'[chanOf[h]] = ClosedChannel
             /\ result'[h] = result[h] /\ returns'[h] = returns[h]
             /\ pc'[h] = "done"]_vars

C17_Witness ==
    \E h \in Handshakes :
       /\ ReturnedSession(h) /\ server[h] = "serving"
       /\ Len(deliveries[h]) = 3
       /\ deliveries[h][1].st = "ok"
       /\ deliveries[h][2].st = "rejected"
       /\ deliveries[h][3].st = "panicked"

SetupFailed(h) ==
    result[h] \in {Err("PolicyEncodingFailed"), Err("EndpointBindFailed")}

\* C18: a create call builds its callback server at most once and calls
\* browser::open at most once; a failed bind makes create return the bind
\* error in the same step; after a policy encoding failure or a bind
\* failure create has returned that error, the browser was never launched
\* and no serving task was started.
C18_NoRetry ==
    /\ [](\A h \in Handshakes : binds[h] <= 1 /\ Len(opened[h]) <= 1)
    /\ [][\A h \in Handshakes :
             binds'[h] # binds[h] /\ server'[h] # "bound" =>
                /\ result'[h] = Err("EndpointBindFailed")
                /\ pc'[h] = "done"]_vars
    /\ [](\A h \in Handshakes :
             SetupFailed(h) =>
                /\ pc[h] = "done" /\ returns[h] = 1
                /\ opened[h] = <<>>
                /\ server[h] = "none" /\ port[h] = 0
                /\ deliveries[h] = <<>>
                /\ result[h] = Err("PolicyEncodingFailed") => binds[h] = 0)

C18_Witness ==
    \E h \in Handshakes : \E g \in Handshakes \ {h} :
       /\ result[h] = Err("EndpointBindFailed") /\ binds[h] = 1
       /\ result[g] = Err("PolicyEncodingFailed") /\ binds[g] = 0
       /\ opened[h] = <<>> /\ opened[g] = <<>>

(***************************************************************************)
(* Frame of store (checked under PersistSpec).                             *)
(***************************************************************************)
\* The identity keys a store call of the current state does not name.
OtherKeys ==
    IF Authenticated THEN Keys \ {<<lastOp.cred.account[1], lastOp.chain>>}
    ELSE Keys

\* C19: a store call, successful or failed, leaves the outcome of get the
\* same for every identity key other than its own (account, chain id), and
\* leaves the session files of those keys as they were.
C19_StoreFrame ==
    lastOp.op = "store" =>
       \A k \in OtherKeys :
          /\ GetOutcome(LoggedIn(k[1]), fs, k[2])
                = GetOutcome(LoggedIn(k[1]), lastOp.before[1], k[2])
          /\ fs[get_file_path(k[1], k[2])]
                = lastOp.before[1][get_file_path(k[1], k[2])]

C19_Witness ==
    /\ lastOp.op = "store" /\ Authenticated
    /\ lastOp.out = OkUnit
    /\ fs # lastOp.before[1]
    /\ \E k \in OtherKeys :
          /\ k[1] = lastOp.cred.account[1]
          /\ GetOutcome(LoggedIn(k[1]), fs, k[2]).tag = "Ok"
          /\ GetOutcome(LoggedIn(k[1]), fs, k[2]) # Ok(lastOp.arg[1])

(***************************************************************************)
(* Parameters of the approval URL (checked under EncodeSpec).              *)
(***************************************************************************)
\* C20: the URL handed to the browser has exactly the four query parameters
\* username, rpc_url, policies and callback_uri, once each and in that
\* order, and the decoded value of rpc_url is the provider URL that was
\* passed in, also when that URL holds '&', '=', '#' or a query string.
C20_FourParameters ==
    built.stage = "url" =>
       LET pairs == QueryPairs(built.url)
       IN /\ [k \in 1..Len(pairs) |-> pairs[k][1]]
                = <<T_username, T_rpc_url, T_policies, T_callback_uri>>
          /\ pairs[2][2] = built.rpc_url

====
